---- MODULE Spec2Model ----
(***************************************************************************)
(* Model of ethereum/types.go (package ethereum of rosetta-core): the      *)
(* operation taxonomy with its two classification predicates CallType and  *)
(* CreateType, and the compiled-in network registry (network names,        *)
(* genesis block identifiers, chain configurations, geth launch arguments, *)
(* currency, call-method whitelist, reward parameters).                    *)
(*                                                                         *)
(* Go strings are TLA+ strings (compared exactly, case-sensitively).       *)
(* Hex text that the code parses or prints character by character (the     *)
(* genesis hashes) is a sequence of one-character strings, a common.Hash   *)
(* is a sequence of 32 bytes.                                              *)
(***************************************************************************)
EXTENDS Integers, Sequences, FiniteSets, TLC

VARIABLES tables, calls

vars == <<tables, calls>>

(* ------------------------------ bounds --------------------------------- *)

\* Number of concurrent request-handling callers of the package.
NumCallers == 2

\* Uncle depths 0..MaxDepth are offered to the eligibility check.
MaxDepth == 10

Callers == 1..NumCallers

(* ------------------------- const block (28-141) ------------------------ *)

Blockchain == "Corechain"

MainnetNetwork == "Mainnet"

RopstenNetwork == "Ropsten"

RinkebyNetwork == "Rinkeby"

GoerliNetwork == "Goerli"

DevNetwork == "Dev"

CoreNetwork == "Core"

BuffaloNetwork_lowercase == "buffalo"

BuffaloNetwork == "Buffalo"

Symbol == "CORE"

Decimals == 18

MinerRewardOpType == "MINER_REWARD"

UncleRewardOpType == "UNCLE_REWARD"

FeeOpType == "FEE"

CallOpType == "CALL"

CreateOpType == "CREATE"

Create2OpType == "CREATE2"

SelfDestructOpType == "SELFDESTRUCT"

CallCodeOpType == "CALLCODE"

DelegateCallOpType == "DELEGATECALL"

StaticCallOpType == "STATICCALL"

DestructOpType == "DESTRUCT"

SuccessStatus == "SUCCESS"

FailureStatus == "FAILURE"

UnclesRewardMultiplier == 32

MaxUncleDepth_offByOne == 8 + 1

MaxUncleDepth == 8

GenesisBlockIndex == 0

MainnetGethArguments ==
    "--config=/app/ethereum/geth.toml --cache=8000 --gcmode=archive --graphql"

(* --------------------- common.Hash and its hex text -------------------- *)

HashLength == 32

HexLower == <<"0","1","2","3","4","5","6","7","8","9","a","b","c","d","e","f">>

HexUpper == <<"0","1","2","3","4","5","6","7","8","9","A","B","C","D","E","F">>

IsHexChar(c) == \E i \in 1..16 : HexLower[i] = c \/ HexUpper[i] = c

\* encoding/hex fromHexChar: the value of one hexadecimal character.
FromHexChar(c) == (CHOOSE i \in 1..16 : HexLower[i] = c \/ HexUpper[i] = c) - 1

\* common.has0xPrefix
Has0xPrefix(s) == Len(s) >= 2 /\ s[1] = "0" /\ (s[2] = "x" \/ s[2] = "X")

\* hex.DecodeString as used by common.Hex2Bytes (its error is dropped): the
\* bytes of the leading pairs of hexadecimal characters.
RECURSIVE Hex2Bytes(_)
Hex2Bytes(s) ==
    IF Len(s) < 2 \/ ~IsHexChar(s[1]) \/ ~IsHexChar(s[2])
    THEN <<>>
    ELSE <<16 * FromHexChar(s[1]) + FromHexChar(s[2])>> \o Hex2Bytes(SubSeq(s, 3, Len(s)))

\* common.FromHex: strip the 0x prefix, left-pad an odd number of digits.
FromHex(s) ==
    LET t == IF Has0xPrefix(s) THEN SubSeq(s, 3, Len(s)) ELSE s
        u == IF Len(t) % 2 = 1 THEN <<"0">> \o t ELSE t
    IN  Hex2Bytes(u)

\* common.BytesToHash / Hash.SetBytes: keep the last 32 bytes, right-aligned
\* in a zeroed [32]byte.
BytesToHash(b) ==
    LET c == IF Len(b) > HashLength THEN SubSeq(b, Len(b) - HashLength + 1, Len(b)) ELSE b
    IN  [i \in 1..HashLength |->
            IF i <= HashLength - Len(c) THEN 0 ELSE c[i - (HashLength - Len(c))]]

\* common.HexToHash
HexToHash(s) == BytesToHash(FromHex(s))

\* Hash.Hex (hexutil.Encode): "0x" followed by two lower-case digits per byte.
RECURSIVE EncodeHex(_)
EncodeHex(b) ==
    IF b = <<>> THEN <<>>
    ELSE <<HexLower[(b[1] \div 16) + 1], HexLower[(b[1] % 16) + 1]>> \o EncodeHex(Tail(b))

HashHex(h) == <<"0", "x">> \o EncodeHex(h)

(* ---------------------- var block 1 (143-160) -------------------------- *)

DevGenesisHash ==
    HexToHash(<<"0","x","0","0","0","0","0","0","0","0","0","0","0","0","0","0","0","0","0","0","0","0","0","0","0","0","0","0","0","0","0","0","0","0","0","0","0","0","0","0","0","0","0","0","0","0","0","0","0","0","0","0","0","0","0","0","0","0","0","0","0","0","0","0","0","0">>)

CoreGenesisHash ==
    HexToHash(<<"0","x","f","7","f","c","8","7","f","1","1","e","6","1","5","0","8","a","5","8","2","8","c","d","1","5","0","8","0","6","0","e","d","1","7","1","4","c","8","d","3","2","a","9","2","7","4","4","a","e","1","0","a","c","b","4","3","c","9","5","3","3","5","7","a","d">>)

BuffaloGenesisHash_truncated ==
    HexToHash(<<"0","x","d","9","0","5","0","8","c","5","1","e","f","d","6","4","e","7","5","3","6","3","c","d","f","5","1","1","1","4","d","9","f","2","a","9","0","a","7","9","e","6","c","d","0","f","7","8","f","3","c","3","0","3","8","b","4","7","6","9","5","c","0","3","4">>)

BuffaloGenesisHash ==
    HexToHash(<<"0","x","d","9","0","5","0","8","c","5","1","e","f","d","6","4","e","7","5","3","6","3","c","d","f","5","1","1","1","4","d","9","f","2","a","9","0","a","7","9","e","6","c","d","0","f","7","8","f","3","c","3","0","3","8","b","4","7","6","9","5","c","0","3","4","a">>)

CoreChainConfig_collides == [ChainID |-> 1115]

CoreChainConfig == [ChainID |-> 1116]

BuffaloChainConfig == [ChainID |-> 1115]

DevChainConfig == [ChainID |-> 1112]

(* ------- go-ethereum params values of the four legacy networks -------- *)

MainnetGenesisHash ==
    HexToHash(<<"0","x","d","4","e","5","6","7","4","0","f","8","7","6","a","e","f","8","c","0","1","0","b","8","6","a","4","0","d","5","f","5","6","7","4","5","a","1","1","8","d","0","9","0","6","a","3","4","e","6","9","a","e","c","8","c","0","d","b","1","c","b","8","f","a","3">>)

RopstenGenesisHash ==
    HexToHash(<<"0","x","4","1","9","4","1","0","2","3","6","8","0","9","2","3","e","0","f","e","4","d","7","4","a","3","4","b","d","a","c","8","1","4","1","f","2","5","4","0","e","3","a","e","9","0","6","2","3","7","1","8","e","4","7","d","6","6","d","1","c","a","4","a","2","d">>)

RinkebyGenesisHash ==
    HexToHash(<<"0","x","6","3","4","1","f","d","3","d","a","f","9","4","b","7","4","8","c","7","2","c","e","d","5","a","5","b","2","6","0","2","8","f","2","4","7","4","f","5","f","0","0","d","8","2","4","5","0","4","e","4","f","a","3","7","a","7","5","7","6","7","e","1","7","7">>)

GoerliGenesisHash ==
    HexToHash(<<"0","x","b","f","7","e","3","3","1","f","7","f","7","c","1","d","d","2","e","0","5","1","5","9","6","6","6","b","3","b","f","8","b","c","7","a","8","a","3","a","9","e","b","1","d","5","1","8","9","6","9","e","a","b","5","2","9","d","d","9","b","8","8","c","1","a">>)

MainnetChainConfig == [ChainID |-> 1]

RopstenChainConfig == [ChainID |-> 3]

RinkebyChainConfig == [ChainID |-> 4]

GoerliChainConfig == [ChainID |-> 5]

(* ---------------------- var block 2 (162-271) -------------------------- *)

\* fmt.Sprintf for a format made of literal text and %s verbs, given as the
\* sequence of its pieces: every %s is replaced by the argument.
RECURSIVE Sprintf(_, _)
Sprintf(format, arg) ==
    IF format = <<>> THEN ""
    ELSE (IF Head(format) = "%s" THEN arg ELSE Head(format)) \o Sprintf(Tail(format), arg)

RopstenGethArguments_flagFirst == Sprintf(<<"--ropsten ", "%s">>, MainnetGethArguments)

RopstenGethArguments == Sprintf(<<"%s", " --ropsten">>, MainnetGethArguments)

RinkebyGethArguments == Sprintf(<<"%s", " --rinkeby">>, MainnetGethArguments)

GoerliGethArguments == Sprintf(<<"%s", " --goerli">>, MainnetGethArguments)

DevGethArguments == MainnetGethArguments

CoreGethArguments == MainnetGethArguments

BuffaloGethArguments == MainnetGethArguments

MainnetGenesisBlockIdentifier ==
    [Hash |-> HashHex(MainnetGenesisHash), Index |-> GenesisBlockIndex]

RopstenGenesisBlockIdentifier ==
    [Hash |-> HashHex(RopstenGenesisHash), Index |-> GenesisBlockIndex]

RinkebyGenesisBlockIdentifier ==
    [Hash |-> HashHex(RinkebyGenesisHash), Index |-> GenesisBlockIndex]

GoerliGenesisBlockIdentifier ==
    [Hash |-> HashHex(GoerliGenesisHash), Index |-> GenesisBlockIndex]

DevGenesisBlockIdentifier ==
    [Hash |-> HashHex(DevGenesisHash), Index |-> GenesisBlockIndex]

CoreGenesisBlockIdentifier ==
    [Hash |-> HashHex(CoreGenesisHash), Index |-> GenesisBlockIndex]

BuffaloGenesisBlockIdentifier ==
    [Hash |-> HashHex(BuffaloGenesisHash), Index |-> GenesisBlockIndex]

Currency == [Symbol |-> Symbol, Decimals |-> Decimals]

OperationTypes ==
    << MinerRewardOpType, UncleRewardOpType, FeeOpType, CallOpType, CreateOpType,
       Create2OpType, SelfDestructOpType, CallCodeOpType, DelegateCallOpType,
       StaticCallOpType, DestructOpType >>

OperationStatuses ==
    << [Status |-> SuccessStatus, Successful |-> TRUE],
       [Status |-> FailureStatus, Successful |-> FALSE] >>

CallMethods_withSend ==
    << "eth_getBlockByNumber", "eth_getTransactionReceipt", "eth_call",
       "eth_estimateGas", "eth_sendRawTransaction" >>

CallMethods ==
    << "eth_getBlockByNumber", "eth_getTransactionReceipt", "eth_call",
       "eth_estimateGas" >>

\* The package-level variables as initialised when the package is loaded.
PackageVars ==
    [ DevGenesisHash                |-> DevGenesisHash,
      CoreGenesisHash               |-> CoreGenesisHash,
      BuffaloGenesisHash            |-> BuffaloGenesisHash,
      CoreChainConfig               |-> CoreChainConfig,
      BuffaloChainConfig            |-> BuffaloChainConfig,
      DevChainConfig                |-> DevChainConfig,
      RopstenGethArguments          |-> RopstenGethArguments,
      RinkebyGethArguments          |-> RinkebyGethArguments,
      GoerliGethArguments           |-> GoerliGethArguments,
      DevGethArguments              |-> DevGethArguments,
      CoreGethArguments             |-> CoreGethArguments,
      BuffaloGethArguments          |-> BuffaloGethArguments,
      MainnetGenesisBlockIdentifier |-> MainnetGenesisBlockIdentifier,
      RopstenGenesisBlockIdentifier |-> RopstenGenesisBlockIdentifier,
      RinkebyGenesisBlockIdentifier |-> RinkebyGenesisBlockIdentifier,
      GoerliGenesisBlockIdentifier  |-> GoerliGenesisBlockIdentifier,
      DevGenesisBlockIdentifier     |-> DevGenesisBlockIdentifier,
      CoreGenesisBlockIdentifier    |-> CoreGenesisBlockIdentifier,
      BuffaloGenesisBlockIdentifier |-> BuffaloGenesisBlockIdentifier,
      Currency                      |-> Currency,
      OperationTypes                |-> OperationTypes,
      OperationStatuses             |-> OperationStatuses,
      CallMethods                   |-> CallMethods ]

(* ------------------- classification predicates (285-319) --------------- *)

\* for _, x := range list { if x == t { return true } }; return false
InList(list, t) == \E i \in 1..Len(list) : list[i] = t

CallType_noStaticCall(t) ==
    LET callTypes == <<CallOpType, CallCodeOpType, DelegateCallOpType>>
    IN  InList(callTypes, t)

CallType(t) ==
    LET callTypes == <<CallOpType, CallCodeOpType, DelegateCallOpType, StaticCallOpType>>
    IN  InList(callTypes, t)

CreateType_noCreate2(t) ==
    LET createTypes == <<CreateOpType>>
    IN  InList(createTypes, t)

CreateType_withCall(t) ==
    LET createTypes == <<CreateOpType, Create2OpType, CallOpType>>
    IN  InList(createTypes, t)

CreateType(t) ==
    LET createTypes == <<CreateOpType, Create2OpType>>
    IN  InList(createTypes, t)

(* ------------- registry lookups built on the tables above -------------- *)

UnsupportedNetwork == [ok |-> FALSE, err |-> "UnsupportedNetwork"]

Descriptor(name, genesis, config, arguments) ==
    [ ok |-> TRUE,
      descriptor |-> [ name                   |-> name,
                       blockchain             |-> Blockchain,
                       genesisBlockIdentifier |-> genesis,
                       chainConfig            |-> config,
                       nodeLaunchArguments    |-> arguments ] ]

\* Exact-match lookup of a network name among the compiled-in descriptors.
descriptorFor(networkName) ==
    CASE networkName = MainnetNetwork ->
           Descriptor(MainnetNetwork, tables.MainnetGenesisBlockIdentifier,
                      MainnetChainConfig, MainnetGethArguments)
      [] networkName = RopstenNetwork ->
           Descriptor(RopstenNetwork, tables.RopstenGenesisBlockIdentifier,
                      RopstenChainConfig, tables.RopstenGethArguments)
      [] networkName = RinkebyNetwork ->
           Descriptor(RinkebyNetwork, tables.RinkebyGenesisBlockIdentifier,
                      RinkebyChainConfig, tables.RinkebyGethArguments)
      [] networkName = GoerliNetwork ->
           Descriptor(GoerliNetwork, tables.GoerliGenesisBlockIdentifier,
                      GoerliChainConfig, tables.GoerliGethArguments)
      [] networkName = DevNetwork ->
           Descriptor(DevNetwork, tables.DevGenesisBlockIdentifier,
                      tables.DevChainConfig, tables.DevGethArguments)
      [] networkName = CoreNetwork ->
           Descriptor(CoreNetwork, tables.CoreGenesisBlockIdentifier,
                      tables.CoreChainConfig, tables.CoreGethArguments)
      [] networkName = BuffaloNetwork ->
           Descriptor(BuffaloNetwork, tables.BuffaloGenesisBlockIdentifier,
                      tables.BuffaloChainConfig, tables.BuffaloGethArguments)
      [] OTHER -> UnsupportedNetwork

\* The launch arguments of a network's node, or the lookup's failure.
launchArgumentsFor(networkName) ==
    LET d == descriptorFor(networkName)
    IN  IF d.ok THEN [ok |-> TRUE, arguments |-> d.descriptor.nodeLaunchArguments]
        ELSE d

\* Whitelist membership of a passthrough query method.
isCallMethod(method) == InList(tables.CallMethods, method)

\* Whether an uncle at this depth takes part in the reward computation.
uncleEligible(depth) == depth <= MaxUncleDepth

(* ------------------------------ inputs --------------------------------- *)

ActionTypes ==
    { OperationTypes[i] : i \in 1..Len(OperationTypes) }
        \cup { "", "call", "Create2", "TRANSFER" }

NetworkNames ==
    { MainnetNetwork, RopstenNetwork, RinkebyNetwork, GoerliNetwork, DevNetwork,
      CoreNetwork, BuffaloNetwork, "unknown-net", "buffalo", "MAINNET", "" }

Methods ==
    { CallMethods[i] : i \in 1..Len(CallMethods) }
        \cup { "eth_sendRawTransaction", "ETH_CALL", "eth_Call", "" }

Depths == 0..MaxDepth

(* --------------------------- state machine ----------------------------- *)

NoCall == [fn |-> "none"]

Init ==
    /\ tables = PackageVars
    /\ calls = [c \in Callers |-> NoCall]

Returns(c, fn, arg, ret) ==
    calls' = [calls EXCEPT ![c] = [fn |-> fn, arg |-> arg, ret |-> ret]]

\* A CallType built by appending to a sub-slice of the shared OperationTypes
\* slice, which writes the appended tags over the table's entries.
CallTypeCall_aliasing(c, t) ==
    /\ Returns(c, "CallType", t, CallType(t))
    /\ tables' = [tables EXCEPT !.OperationTypes =
                    [i \in 1..Len(@) |->
                        CASE i = 5 -> CallCodeOpType
                          [] i = 6 -> DelegateCallOpType
                          [] i = 7 -> StaticCallOpType
                          [] OTHER -> @[i]]]

CallTypeCall(c, t) ==
    /\ Returns(c, "CallType", t, CallType(t))
    /\ UNCHANGED tables

CreateTypeCall(c, t) ==
    /\ Returns(c, "CreateType", t, CreateType(t))
    /\ UNCHANGED tables

DescriptorForCall(c, n) ==
    /\ Returns(c, "descriptorFor", n, descriptorFor(n))
    /\ UNCHANGED tables

LaunchArgumentsForCall(c, n) ==
    /\ Returns(c, "launchArgumentsFor", n, launchArgumentsFor(n))
    /\ UNCHANGED tables

IsCallMethodCall(c, m) ==
    /\ Returns(c, "isCallMethod", m, isCallMethod(m))
    /\ UNCHANGED tables

UncleEligibleCall(c, d) ==
    /\ Returns(c, "uncleEligible", d, uncleEligible(d))
    /\ UNCHANGED tables

NextTaxonomy ==
    \E c \in Callers :
        \/ \E t \in ActionTypes : CallTypeCall(c, t)
        \/ \E t \in ActionTypes : CreateTypeCall(c, t)

NextRegistry ==
    \E c \in Callers :
        \/ \E n \in NetworkNames : DescriptorForCall(c, n)
        \/ \E n \in NetworkNames : LaunchArgumentsForCall(c, n)

NextShared ==
    \E c \in Callers :
        \/ \E m \in Methods : IsCallMethodCall(c, m)
        \/ \E d \in Depths : UncleEligibleCall(c, d)

Next == NextTaxonomy \/ NextRegistry \/ NextShared

\* Callers of every operation of the package, interleaved.
Spec == Init /\ [][Next]_vars

\* Callers of the classification predicates only.
SpecTaxonomy == Init /\ [][NextTaxonomy]_vars

\* Callers of the network lookups only.
SpecRegistry == Init /\ [][NextRegistry]_vars

\* Callers of the whitelist and reward-parameter checks only.
SpecShared == Init /\ [][NextShared]_vars

(* ------------------------------ claims --------------------------------- *)

Called(c, fn) == calls[c].fn = fn

CallFamily == {"CALL", "CALLCODE", "DELEGATECALL", "STATICCALL"}

CreateFamily == {"CREATE", "CREATE2"}

KnownTags ==
    {"MINER_REWARD", "UNCLE_REWARD", "FEE", "CALL", "CREATE", "CREATE2",
     "SELFDESTRUCT", "CALLCODE", "DELEGATECALL", "STATICCALL", "DESTRUCT"}

SevenNetworks == {"Mainnet", "Ropsten", "Rinkeby", "Goerli", "Dev", "Core", "Buffalo"}

\* C1: every completed CallType(t) returned TRUE exactly when t is one of
\* "CALL", "CALLCODE", "DELEGATECALL", "STATICCALL" (so TRUE for "STATICCALL",
\* FALSE for "CREATE2", "SELFDESTRUCT", "DESTRUCT", "" and lower-case variants).
C1_CallTypeIffCallFamily ==
    \A c \in Callers :
        Called(c, "CallType") => calls[c].ret = (calls[c].arg \in CallFamily)

C1_Witness ==
    \E c, d \in Callers :
        /\ calls[c] = [fn |-> "CallType", arg |-> "STATICCALL", ret |-> TRUE]
        /\ calls[d] = [fn |-> "CallType", arg |-> "CREATE2", ret |-> FALSE]

\* C2: every completed CreateType(t) returned TRUE exactly when t is "CREATE"
\* or "CREATE2" (so FALSE for "DESTRUCT", "SELFDESTRUCT", "FEE", "MINER_REWARD",
\* "UNCLE_REWARD").
C2_CreateTypeIffCreateFamily ==
    \A c \in Callers :
        Called(c, "CreateType") => calls[c].ret = (calls[c].arg \in CreateFamily)

C2_Witness ==
    \E c, d \in Callers :
        /\ calls[c] = [fn |-> "CreateType", arg |-> "CREATE2", ret |-> TRUE]
        /\ calls[d] = [fn |-> "CreateType", arg |-> "DESTRUCT", ret |-> FALSE]

\* C3: CallType and CreateType never both return TRUE for the same string, and
\* for a string that is no known tag each returns the boolean FALSE (no failure).
C3_MutuallyExclusive ==
    /\ \A c, d \in Callers :
          (Called(c, "CallType") /\ Called(d, "CreateType") /\ calls[c].arg = calls[d].arg)
              => ~(calls[c].ret /\ calls[d].ret)
    /\ \A c \in Callers :
          (Called(c, "CallType") \/ Called(c, "CreateType"))
              => /\ calls[c].ret \in BOOLEAN
                 /\ calls[c].arg \notin KnownTags => calls[c].ret = FALSE

C3_Witness ==
    \E c, d \in Callers :
        /\ calls[c] = [fn |-> "CallType", arg |-> "CALL", ret |-> TRUE]
        /\ calls[d] = [fn |-> "CreateType", arg |-> "CALL", ret |-> FALSE]

C5_ExactMatchLookup ==
    \A c \in Callers :
        Called(c, "descriptorFor")
            => IF calls[c].arg \in SevenNetworks
               THEN calls[c].ret.ok /\ calls[c].ret.descriptor.name = calls[c].arg
               ELSE calls[c].ret = [ok |-> FALSE, err |-> "UnsupportedNetwork"]

C5_Witness ==
    \E c, d \in Callers :
        /\ Called(c, "descriptorFor") /\ calls[c].arg = "unknown-net" /\ ~calls[c].ret.ok
        /\ Called(d, "descriptorFor") /\ calls[d].arg = "buffalo" /\ ~calls[d].ret.ok

BuffaloDocumentedHash ==
    <<"0","x","d","9","0","5","0","8","c","5","1","e","f","d","6","4","e","7","5","3","6","3","c","d","f","5","1","1","1","4","d","9","f","2","a","9","0","a","7","9","e","6","c","d","0","f","7","8","f","3","c","3","0","3","8","b","4","7","6","9","5","c","0","3","4","a">>

GenesisBlockIdentifiers ==
    { tables.MainnetGenesisBlockIdentifier, tables.RopstenGenesisBlockIdentifier,
      tables.RinkebyGenesisBlockIdentifier, tables.GoerliGenesisBlockIdentifier,
      tables.DevGenesisBlockIdentifier, tables.CoreGenesisBlockIdentifier,
      tables.BuffaloGenesisBlockIdentifier }

WellFormedHash(h) ==
    /\ Len(h) = 66
    /\ h[1] = "0" /\ h[2] = "x"
    /\ \A i \in 3..66 : IsHexChar(h[i])

\* C6: every network's genesis block identifier has index 0 and a hash of 64
\* hexadecimal characters (after the 0x prefix) that is the same at every
\* lookup; for "Buffalo" it is 0xd90508c5...695c034a.
C6_GenesisIdentifier ==
    /\ \A g \in GenesisBlockIdentifiers : g.Index = 0 /\ WellFormedHash(g.Hash)
    /\ tables.BuffaloGenesisBlockIdentifier.Hash = BuffaloDocumentedHash
    /\ \A c \in Callers :
          (Called(c, "descriptorFor") /\ calls[c].ret.ok)
              => LET g == calls[c].ret.descriptor.genesisBlockIdentifier
                 IN  /\ g.Index = 0
                     /\ WellFormedHash(g.Hash)
                     /\ calls[c].arg = "Buffalo" => g.Hash = BuffaloDocumentedHash
    /\ \A c, d \in Callers :
          (/\ Called(c, "descriptorFor") /\ Called(d, "descriptorFor")
           /\ calls[c].ret.ok /\ calls[c].arg = calls[d].arg)
              => calls[c].ret.descriptor.genesisBlockIdentifier
                    = calls[d].ret.descriptor.genesisBlockIdentifier

C6_Witness ==
    \E c, d \in Callers :
        /\ Called(c, "descriptorFor") /\ calls[c].arg = "Buffalo"
        /\ calls[c].ret.descriptor.genesisBlockIdentifier.Index = 0
        /\ Called(d, "descriptorFor") /\ calls[d].arg = "Dev" /\ calls[d].ret.ok

NetworkSuffix == [Ropsten |-> "ropsten", Rinkeby |-> "rinkeby", Goerli |-> "goerli"]

\* C7: the launch arguments of Ropsten, Rinkeby and Goerli are the base string
\* followed by " --" and the network's suffix; those of Mainnet, Dev, Core and
\* Buffalo are the base string itself.
C7_LaunchArguments ==
    /\ tables.RopstenGethArguments = MainnetGethArguments \o " --" \o "ropsten"
    /\ tables.RinkebyGethArguments = MainnetGethArguments \o " --" \o "rinkeby"
    /\ tables.GoerliGethArguments = MainnetGethArguments \o " --" \o "goerli"
    /\ tables.DevGethArguments = MainnetGethArguments
    /\ tables.CoreGethArguments = MainnetGethArguments
    /\ tables.BuffaloGethArguments = MainnetGethArguments
    /\ \A c \in Callers :
          (Called(c, "launchArgumentsFor") /\ calls[c].ret.ok)
              => IF calls[c].arg \in DOMAIN NetworkSuffix
                 THEN calls[c].ret.arguments
                          = MainnetGethArguments \o " --" \o NetworkSuffix[calls[c].arg]
                 ELSE calls[c].ret.arguments = MainnetGethArguments

C7_Witness ==
    \E c, d \in Callers :
        /\ Called(c, "launchArgumentsFor") /\ calls[c].arg = "Ropsten" /\ calls[c].ret.ok
        /\ Called(d, "launchArgumentsFor") /\ calls[d].arg = "Buffalo" /\ calls[d].ret.ok

Whitelist ==
    {"eth_getBlockByNumber", "eth_getTransactionReceipt", "eth_call", "eth_estimateGas"}

\* C8: CallMethods has exactly the four entries eth_getBlockByNumber,
\* eth_getTransactionReceipt, eth_call, eth_estimateGas, and the membership
\* check accepts a method exactly when it equals one of them, case-sensitively.
C8_ClosedWhitelist ==
    /\ Len(tables.CallMethods) = 4
    /\ {tables.CallMethods[i] : i \in 1..Len(tables.CallMethods)} = Whitelist
    /\ \A c \in Callers :
          Called(c, "isCallMethod") => calls[c].ret = (calls[c].arg \in Whitelist)

C8_Witness ==
    \E c, d \in Callers :
        /\ Called(c, "isCallMethod") /\ calls[c].arg = "eth_call" /\ calls[c].ret
        /\ Called(d, "isCallMethod") /\ calls[d].arg = "ETH_CALL" /\ ~calls[d].ret

\* C9: an uncle at depth d is eligible exactly when d <= 8 (the compiled
\* MaxUncleDepth): depth 8 is eligible, depth 9 is not.
C9_UncleDepthBoundary ==
    \A c \in Callers :
        Called(c, "uncleEligible") => calls[c].ret = (calls[c].arg <= 8)

C9_Witness ==
    \E c, d \in Callers :
        /\ Called(c, "uncleEligible") /\ calls[c].arg = 8 /\ calls[c].ret
        /\ Called(d, "uncleEligible") /\ calls[d].arg = 9 /\ ~calls[d].ret

====
